---- MODULE Spec2Model ----
(***************************************************************************)
(* Model of visualizer.py: the package-database parser                     *)
(* (parse_installed_packages), the dependency-graph builder                *)
(* (build_dependency_graph and its inner visit), the PlantUML text         *)
(* generator (generate_plantuml) and the render invoker (generate_image).  *)
(*                                                                         *)
(* Python values are modelled as follows.                                  *)
(*   str         a sequence of one-character strings, <<"P", ":", "a">>    *)
(*   list        a sequence                                                *)
(*   dict        a sequence of records [k |-> key, v |-> value] in         *)
(*               insertion order (Python dicts keep insertion order and    *)
(*               an assignment to an existing key keeps its position)      *)
(*   set         a set                                                     *)
(*   None / x    an option: <<>> for None, <<x>> for the value x           *)
(***************************************************************************)
EXTENDS Integers, Sequences, FiniteSets, TLC

(***************************************************************************)
(* Bounds of the model.                                                    *)
(***************************************************************************)
\* the longest database file, in lines
MaxLines == 4

\* the most dependency entries, over all its records, of a database handed to
\* build_dependency_graph
MaxEdges == 4

\* the deepest nesting of visit calls the interpreter allows before it raises
\* RecursionError (sys.getrecursionlimit(), 1000 in CPython), scaled to the
\* databases of the model: a chain of RecursionLimit + 1 calls is refused
RecursionLimit == 4

(***************************************************************************)
(* Python's str and dict operations.                                       *)
(***************************************************************************)
\* str.isspace for one character
IsSpace(c) == c \in {" ", "\t", "\n"}

RECURSIVE lstrip(_)
lstrip(s) == IF s # <<>> /\ IsSpace(Head(s)) THEN lstrip(Tail(s)) ELSE s

RECURSIVE rstrip(_)
rstrip(s) ==
    IF s # <<>> /\ IsSpace(s[Len(s)]) THEN rstrip(SubSeq(s, 1, Len(s) - 1)) ELSE s

\* line.strip()
strip(s) == rstrip(lstrip(s))

\* line.startswith(p)
startswith(s, p) == Len(s) >= Len(p) /\ SubSeq(s, 1, Len(p)) = p

\* line[2:]
Slice2(s) == SubSeq(s, 3, Len(s))

\* dep_line.split(): the maximal runs of non-whitespace characters, in order
RECURSIVE SplitAcc(_, _, _)
SplitAcc(s, cur, acc) ==
    IF s = <<>>
    THEN IF cur = <<>> THEN acc ELSE Append(acc, cur)
    ELSE IF IsSpace(Head(s))
         THEN SplitAcc(Tail(s), <<>>, IF cur = <<>> THEN acc ELSE Append(acc, cur))
         ELSE SplitAcc(Tail(s), Append(cur, Head(s)), acc)

split(s) == SplitAcc(s, <<>>, <<>>)

\* the keys of a dict, in insertion order
DictKeySeq(d) == [n \in 1..Len(d) |-> d[n].k]

\* the keys of a dict, as a set
DictKeys(d) == {d[n].k : n \in 1..Len(d)}

\* key in d
DictHas(d, key) == key \in DictKeys(d)

\* d.get(key, default)
DictGet(d, key, default) ==
    IF DictHas(d, key)
    THEN d[CHOOSE n \in 1..Len(d) : d[n].k = key].v
    ELSE default

\* d[key] = value that extends the list of an existing key instead of replacing it
DictSetMerging(d, key, value) ==
    IF DictHas(d, key)
    THEN [n \in 1..Len(d) |->
            IF d[n].k = key THEN [k |-> key, v |-> d[n].v \o value] ELSE d[n]]
    ELSE Append(d, [k |-> key, v |-> value])

\* d[key] = value
DictSet(d, key, value) ==
    IF DictHas(d, key)
    THEN [n \in 1..Len(d) |-> IF d[n].k = key THEN [k |-> key, v |-> value] ELSE d[n]]
    ELSE Append(d, [k |-> key, v |-> value])

\* truth value of an optional string: None and "" are false
Truthy(opt) == opt # <<>> /\ opt[1] # <<>>

(***************************************************************************)
(* The text of the database file: the lines a file iteration yields.       *)
(***************************************************************************)
RawLines ==
    { <<"P", ":", "a">>,
      <<"P", ":", "b">>,
      <<"P", ":">>,
      <<"D", ":", "a", " ", "b">>,
      <<"D", ":", "b">>,
      <<"D", ":">>,
      <<" ", "D", ":", " ", "c", "\n">>,
      <<"\n">>,
      <<"X", ":", "a">> }

PREFIX_P == <<"P", ":">>
PREFIX_D == <<"D", ":">>

\* the fixed (Russian) text of the messages, each as one English element
MSG_DB_MISSING == <<"package database file not found: ">>
MSG_DB_UNREADABLE == <<"error reading the package file: ">>

RECURSIVE SeqsUpTo(_, _)
\* the sequences over S of length at most n
SeqsUpTo(S, n) ==
    IF n = 0 THEN {<<>>}
    ELSE LET shorter == SeqsUpTo(S, n - 1)
         IN  shorter \cup {Append(q, x) : q \in shorter, x \in S}

VARIABLES
    pc,               \* the position of the program
    exc,              \* the exception raised: <<>> when none, else <<type, message>>
    f,                \* the lines of the package database file
    i,                \* the index in f of the next line the loop reads
    packages_db,      \* parse_installed_packages: packages_db
    current_package,  \* parse_installed_packages: current_package
    dependencies,     \* parse_installed_packages: dependencies
    package_name,     \* build_dependency_graph: package_name
    dependency_graph, \* build_dependency_graph: dependency_graph
    visited,          \* build_dependency_graph: visited
    stack,            \* the frames of visit, the innermost last
    expansions,       \* history: the packages visit has expanded, in order
    lines,            \* generate_plantuml: lines
    plantuml_code,    \* generate_plantuml: the text returned
    tmp_exists,       \* generate_image: the temporary .puml file exists
    tmp_content,      \* generate_image: the text written to the temporary file
    generated_exists, \* generate_image: the artifact <stem>.png exists in the output directory
    output_exists,    \* generate_image: a file exists at output_image_path
    returncode,       \* generate_image: the exit code of the renderer, -1 before it ran
    stderr,           \* generate_image: the bytes the renderer wrote to standard error
    renames,          \* history: the number of os.rename calls that succeeded
    argv,             \* main: sys.argv
    config,           \* main: the four strings parse_config returned, <<>> before
    calls,            \* history: the stages and os.rename, in the order they were called
    stdout,           \* main: the usage, error and confirmation messages printed
    exit_code         \* the exit code of the process, -1 while it runs

parserVars == <<f, i, packages_db, current_package, dependencies>>

builderVars == <<package_name, dependency_graph, visited, stack, expansions>>

rendererVars == <<lines, plantuml_code>>

imageVars ==
    <<tmp_exists, tmp_content, generated_exists, output_exists, returncode, stderr, renames>>

mainVars == <<argv, config, stdout, exit_code>>

vars == <<pc, exc, parserVars, builderVars, rendererVars, imageVars, mainVars, calls>>

(***************************************************************************)
(* parse_installed_packages                                                *)
(***************************************************************************)
\* line 43-51, 69-70: the file is missing (FileNotFoundError), or open() fails
\* inside the try (re-raised as IOError), or the locals are set and the loop begins
ParseStart ==
    /\ pc = "parse_start"
    /\ \E outcome \in {"missing", "unreadable", "opened"} :
         IF outcome = "opened"
         THEN /\ pc' = "parse_loop"
              /\ packages_db' = <<>>
              /\ current_package' = <<>>
              /\ dependencies' = <<>>
              /\ i' = 1
              /\ UNCHANGED <<exc, f>>
         ELSE /\ pc' = "parse_raised"
              /\ exc' = IF outcome = "missing"
                        THEN <<"FileNotFoundError", MSG_DB_MISSING>>
                        ELSE <<"IOError", MSG_DB_UNREADABLE>>
              /\ UNCHANGED parserVars
    /\ UNCHANGED <<builderVars, rendererVars, imageVars>>
    /\ UNCHANGED <<mainVars, calls>>

\* line 52-60: a line that starts with P: commits the open record and opens a new one
ParseLineP ==
    /\ pc = "parse_loop"
    /\ i <= Len(f)
    /\ LET line == strip(f[i]) IN
         /\ startswith(line, PREFIX_P)
         /\ packages_db' = IF Truthy(current_package)
                           THEN DictSet(packages_db, current_package[1], dependencies)
                           ELSE packages_db
         /\ current_package' = <<Slice2(line)>>
         /\ dependencies' = <<>>
    /\ i' = i + 1
    /\ UNCHANGED <<pc, exc, f>>
    /\ UNCHANGED <<builderVars, rendererVars, imageVars>>
    /\ UNCHANGED <<mainVars, calls>>

\* line 61-65: a line that starts with D: extends the dependency list
ParseLineD ==
    /\ pc = "parse_loop"
    /\ i <= Len(f)
    /\ LET line == strip(f[i]) IN
         /\ ~startswith(line, PREFIX_P)
         /\ startswith(line, PREFIX_D)
         /\ dependencies' = dependencies \o split(Slice2(line))
    /\ i' = i + 1
    /\ UNCHANGED <<pc, exc, f, packages_db, current_package>>
    /\ UNCHANGED <<builderVars, rendererVars, imageVars>>
    /\ UNCHANGED <<mainVars, calls>>

\* an unrecognized line that closes the dependency list gathered so far
ParseLineOtherResetting ==
    /\ pc = "parse_loop"
    /\ i <= Len(f)
    /\ LET line == strip(f[i]) IN
         /\ ~startswith(line, PREFIX_P)
         /\ ~startswith(line, PREFIX_D)
    /\ i' = i + 1
    /\ dependencies' = <<>>
    /\ UNCHANGED <<pc, exc, f, packages_db, current_package>>
    /\ UNCHANGED <<builderVars, rendererVars, imageVars>>
    /\ UNCHANGED <<mainVars, calls>>

\* line 52-55, 61: any other line changes nothing
ParseLineOther ==
    /\ pc = "parse_loop"
    /\ i <= Len(f)
    /\ LET line == strip(f[i]) IN
         /\ ~startswith(line, PREFIX_P)
         /\ ~startswith(line, PREFIX_D)
    /\ i' = i + 1
    /\ UNCHANGED <<pc, exc, f, packages_db, current_package, dependencies>>
    /\ UNCHANGED <<builderVars, rendererVars, imageVars>>
    /\ UNCHANGED <<mainVars, calls>>

\* line 66-73: at end of input the open record is committed and the dict returned
ParseEnd ==
    /\ pc = "parse_loop"
    /\ i > Len(f)
    /\ packages_db' = IF Truthy(current_package)
                      THEN DictSet(packages_db, current_package[1], dependencies)
                      ELSE packages_db
    /\ pc' = "parse_returned"
    /\ UNCHANGED <<exc, f, i, current_package, dependencies>>
    /\ UNCHANGED <<builderVars, rendererVars, imageVars>>
    /\ UNCHANGED <<mainVars, calls>>

(***************************************************************************)
(* build_dependency_graph                                                  *)
(***************************************************************************)
\* the package names of the databases handed to the builder
NameSeq == << <<"a">>, <<"b">>, <<"c">>, <<"d">> >>

Names == {NameSeq[n] : n \in 1..Len(NameSeq)}

\* the roots asked for: the databases range over every mapping on Names, so every
\* pair of a root and a database is one of these up to a renaming of the packages
Roots == {NameSeq[1], NameSeq[2]}

\* the records a package may have in a database whose lists hold at most budget
\* names in all: none, or one with a list of at most budget names
Records(name, budget) ==
    {<<>>} \cup UNION { { <<[k |-> name, v |-> l]>> : l \in [1..len -> Names] } :
                        len \in 0..budget }

\* the names a database lists, repetitions counted
RECURSIVE Edges(_)
Edges(db) == IF db = <<>> THEN 0 ELSE Len(Head(db).v) + Edges(Tail(db))

MSG_NOT_FOUND_1 == <<"package '">>
MSG_NOT_FOUND_2 == <<"' not found in the package database.">>

\* the innermost frame of visit
Top == stack[Len(stack)]

\* the stack once the innermost frame has returned
Popped == SubSeq(stack, 1, Len(stack) - 1)

\* a lookup that also accepts a name some record lists as a dependency
RootKnownOrListed ==
    \/ DictHas(packages_db, package_name)
    \/ \E m \in 1..Len(packages_db) :
          \E j \in 1..Len(packages_db[m].v) : packages_db[m].v[j] = package_name

\* line 79: package_name in packages_db
RootKnown == DictHas(packages_db, package_name)

\* a guard that only recognizes the packages whose visit is still in progress
AlreadyVisitedInProgress(pkg) ==
    \E m \in 1..(Len(stack) - 1) : stack[m].pkg = pkg

\* a guard that also turns away the names that have no record
AlreadyVisitedOrNoRecord(pkg) ==
    pkg \in visited \/ ~DictHas(packages_db, pkg)

\* line 86: pkg in visited
AlreadyVisited(pkg) == pkg \in visited

\* a list from which the names already visited are removed
RecordedDepsPruned(pkg) ==
    SelectSeq(DictGet(packages_db, pkg, <<>>), LAMBDA d : d \notin visited \cup {pkg})

\* line 88: packages_db.get(pkg, [])
RecordedDeps(pkg) == DictGet(packages_db, pkg, <<>>)

\* a loop that runs through the list from its end
NextDepReversed == Top.deps[Len(Top.deps) - Top.n + 1]

\* line 90: the dependency the loop is at
NextDep == Top.deps[Top.n]

\* line 79-83, 93: the root is looked up, the locals are set, visit(package_name)
\* is called
BuildStart ==
    /\ pc = "build_start"
    /\ IF ~RootKnown
       THEN /\ pc' = "build_raised"
            /\ exc' = <<"ValueError", MSG_NOT_FOUND_1 \o package_name \o MSG_NOT_FOUND_2>>
            /\ UNCHANGED <<dependency_graph, visited, stack>>
       ELSE /\ pc' = "visit"
            /\ dependency_graph' = <<>>
            /\ visited' = {}
            /\ stack' = <<[pkg |-> package_name, deps |-> <<>>, n |-> 0]>>
            /\ UNCHANGED exc
    /\ UNCHANGED <<package_name, expansions, parserVars, rendererVars, imageVars>>
    /\ UNCHANGED <<mainVars, calls>>

\* line 86: visit(pkg) with pkg already visited returns at once
VisitSkip ==
    /\ pc = "visit"
    /\ Top.n = 0
    /\ AlreadyVisited(Top.pkg)
    /\ stack' = Popped
    /\ pc' = IF Popped = <<>> THEN "build_returned" ELSE "visit"
    /\ UNCHANGED <<exc, package_name, dependency_graph, visited, expansions>>
    /\ UNCHANGED <<parserVars, rendererVars, imageVars>>
    /\ UNCHANGED <<mainVars, calls>>

\* line 86-89: visit(pkg) with pkg not visited marks it and records its list
VisitExpand ==
    /\ pc = "visit"
    /\ Top.n = 0
    /\ ~AlreadyVisited(Top.pkg)
    /\ LET pkg == Top.pkg
           deps == RecordedDeps(pkg)
       IN  /\ visited' = visited \cup {pkg}
           /\ dependency_graph' = DictSet(dependency_graph, pkg, deps)
           /\ stack' = [stack EXCEPT ![Len(stack)] = [pkg |-> pkg, deps |-> deps, n |-> 1]]
           /\ expansions' = Append(expansions, pkg)
    /\ UNCHANGED <<pc, exc, package_name, parserVars, rendererVars, imageVars>>
    /\ UNCHANGED <<mainVars, calls>>

\* line 90-91: the loop calls visit(dep) for the next dependency
VisitCall ==
    /\ pc = "visit"
    /\ Top.n >= 1
    /\ Top.n <= Len(Top.deps)
    /\ Len(stack) < RecursionLimit
    /\ stack' = Append([stack EXCEPT ![Len(stack)].n = @ + 1],
                       [pkg |-> NextDep, deps |-> <<>>, n |-> 0])
    /\ UNCHANGED <<pc, exc, package_name, dependency_graph, visited, expansions>>
    /\ UNCHANGED <<parserVars, rendererVars, imageVars>>
    /\ UNCHANGED <<mainVars, calls>>

\* line 91: the call is one too deep: the interpreter raises RecursionError,
\* which unwinds every frame and leaves build_dependency_graph
VisitRecursionError ==
    /\ pc = "visit"
    /\ Top.n >= 1
    /\ Top.n <= Len(Top.deps)
    /\ Len(stack) >= RecursionLimit
    /\ stack' = <<>>
    /\ pc' = "build_raised"
    /\ exc' = <<"RecursionError", <<"maximum recursion depth exceeded">> >>
    /\ UNCHANGED <<package_name, dependency_graph, visited, expansions>>
    /\ UNCHANGED <<parserVars, rendererVars, imageVars>>
    /\ UNCHANGED <<mainVars, calls>>

\* line 90, 94: the loop is over, visit returns; the outermost return ends the build
VisitReturn ==
    /\ pc = "visit"
    /\ Top.n >= 1
    /\ Top.n > Len(Top.deps)
    /\ stack' = Popped
    /\ pc' = IF Popped = <<>> THEN "build_returned" ELSE "visit"
    /\ UNCHANGED <<exc, package_name, dependency_graph, visited, expansions>>
    /\ UNCHANGED <<parserVars, rendererVars, imageVars>>
    /\ UNCHANGED <<mainVars, calls>>

(***************************************************************************)
(* generate_plantuml                                                       *)
(***************************************************************************)
STARTUML == <<"@startuml">>
ENDUML == <<"@enduml">>

\* f'"{pkg}" --> "{dep}"'
EdgeLine(pkg, dep) == <<"\"">> \o pkg \o <<"\" --> \"">> \o dep \o <<"\"">>

RECURSIVE EdgeLines(_, _)
\* line 102-103: the inner loop over one package's dependencies
EdgeLines(pkg, deps) ==
    IF deps = <<>> THEN <<>>
    ELSE <<EdgeLine(pkg, Head(deps))>> \o EdgeLines(pkg, Tail(deps))

RECURSIVE GraphLinesDeclaringNodes(_)
\* an outer loop that emits a line for a package without dependencies
GraphLinesDeclaringNodes(g) ==
    IF g = <<>> THEN <<>>
    ELSE (IF Head(g).v = <<>>
          THEN << <<"\"">> \o Head(g).k \o <<"\"">> >>
          ELSE EdgeLines(Head(g).k, Head(g).v)) \o GraphLinesDeclaringNodes(Tail(g))

RECURSIVE GraphLines(_)
\* line 101-103: the outer loop over dependency_graph.items()
GraphLines(g) ==
    IF g = <<>> THEN <<>>
    ELSE EdgeLines(Head(g).k, Head(g).v) \o GraphLines(Tail(g))

RECURSIVE join(_, _)
\* sep.join(ls)
join(sep, ls) ==
    IF ls = <<>> THEN <<>>
    ELSE IF Len(ls) = 1 THEN Head(ls)
    ELSE Head(ls) \o sep \o join(sep, Tail(ls))

\* line 100-105
GeneratePlantuml ==
    /\ pc = "build_returned"
    /\ LET ls == <<STARTUML>> \o GraphLines(dependency_graph) \o <<ENDUML>>
       IN  /\ lines' = ls
           /\ plantuml_code' = join(<<"\n">>, ls)
    /\ pc' = "plantuml_returned"
    /\ UNCHANGED <<exc, parserVars, builderVars, imageVars>>
    /\ calls' = Append(calls, "generate_plantuml")
    /\ UNCHANGED mainVars

(***************************************************************************)
(* generate_image                                                          *)
(***************************************************************************)
MSG_NO_IMAGE == <<"PlantUML did not generate the image.">>
MSG_PLANTUML == <<"error running PlantUML: ">>

\* a byte that is no valid UTF-8
BadByte == "\\xff"

\* bytes.decode() succeeds
Decodable(bytes) == \A n \in 1..Len(bytes) : bytes[n] # BadByte

\* what the renderer may write to standard error
StderrTexts ==
    { <<>>,
      <<"E", "r", "r">>,
      <<" ", "E", " ", "r", "\n">>,
      <<"E", BadByte>> }

\* line 111: NamedTemporaryFile creates the file, or fails and creates nothing
ImageCreateTmp ==
    /\ pc = "image_start"
    /\ \E created \in BOOLEAN :
         IF created
         THEN /\ tmp_exists' = TRUE
              /\ pc' = "image_write"
              /\ UNCHANGED exc
         ELSE /\ pc' = "image_raised"
              /\ exc' = <<"OSError", <<>> >>
              /\ UNCHANGED tmp_exists
    /\ UNCHANGED <<tmp_content, generated_exists, output_exists, returncode, stderr, renames>>
    /\ UNCHANGED <<parserVars, builderVars, rendererVars>>
    /\ UNCHANGED <<mainVars, calls>>

\* line 112-114: the text is written and the file closed at the end of the with
\* block, or the write (an unencodable character, a full disk) raises: the
\* with block is not inside the try, so the exception leaves generate_image
ImageWrite ==
    /\ pc = "image_write"
    /\ \E written \in BOOLEAN :
         IF written
         THEN /\ tmp_content' = plantuml_code
              /\ pc' = "image_run"
              /\ UNCHANGED exc
         ELSE /\ pc' = "image_raised"
              /\ exc' = <<"OSError", <<>> >>
              /\ UNCHANGED tmp_content
    /\ UNCHANGED <<tmp_exists, generated_exists, output_exists, returncode, stderr, renames>>
    /\ UNCHANGED <<parserVars, builderVars, rendererVars>>
    /\ UNCHANGED <<mainVars, calls>>

\* line 119-121: subprocess.run cannot start the renderer (no java): an OSError
\* that the except clause does not catch
ImageRunOSError ==
    /\ pc = "image_run"
    /\ pc' = "image_finally"
    /\ exc' = <<"FileNotFoundError", <<>> >>
    /\ UNCHANGED <<parserVars, builderVars, rendererVars, imageVars>>
    /\ UNCHANGED <<mainVars, calls>>

\* line 121, 134-137: the renderer exits non-zero; check=True raises
\* CalledProcessError, whose handler decodes and strips the standard error
ImageRunNonZero ==
    /\ pc = "image_run"
    /\ \E err \in StderrTexts :
         /\ stderr' = err
         /\ exc' = IF Decodable(err)
                   THEN <<"RuntimeError", MSG_PLANTUML \o strip(err)>>
                   ELSE <<"UnicodeDecodeError", <<>> >>
    /\ returncode' = 1
    /\ pc' = "image_finally"
    /\ UNCHANGED <<tmp_exists, tmp_content, generated_exists, output_exists, renames>>
    /\ UNCHANGED <<parserVars, builderVars, rendererVars>>
    /\ UNCHANGED <<mainVars, calls>>

\* line 121-122: the renderer exits with code 0, having written the artifact or not
ImageRunZero ==
    /\ pc = "image_run"
    /\ \E err \in StderrTexts, produced \in BOOLEAN :
         /\ stderr' = err
         /\ generated_exists' = produced
    /\ returncode' = 0
    /\ pc' = "image_check"
    /\ UNCHANGED <<exc, tmp_exists, tmp_content, output_exists, renames>>
    /\ UNCHANGED <<parserVars, builderVars, rendererVars>>
    /\ UNCHANGED <<mainVars, calls>>

\* a call that goes on to os.rename without looking for the artifact
ImageCheckSkipped ==
    /\ pc = "image_check"
    /\ pc' = "image_rename"
    /\ UNCHANGED <<exc, parserVars, builderVars, rendererVars, imageVars>>
    /\ UNCHANGED <<mainVars, calls>>

\* line 125-129: the artifact named by the stem of the temporary file must exist
ImageCheck ==
    /\ pc = "image_check"
    /\ IF ~generated_exists
       THEN /\ pc' = "image_finally"
            /\ exc' = <<"FileNotFoundError", MSG_NO_IMAGE>>
       ELSE /\ pc' = "image_rename"
            /\ UNCHANGED exc
    /\ UNCHANGED <<parserVars, builderVars, rendererVars, imageVars>>
    /\ UNCHANGED <<mainVars, calls>>

\* line 132-133: os.rename moves the artifact to output_image_path, or raises
ImageRename ==
    /\ pc = "image_rename"
    /\ \E renamed \in BOOLEAN :
         IF renamed
         THEN /\ generated_exists' = FALSE
              /\ output_exists' = TRUE
              /\ renames' = renames + 1
              /\ UNCHANGED exc
         ELSE /\ exc' = <<"OSError", <<>> >>
              /\ UNCHANGED <<generated_exists, output_exists, renames>>
    /\ pc' = "image_finally"
    /\ UNCHANGED <<tmp_exists, tmp_content, returncode, stderr>>
    /\ UNCHANGED <<parserVars, builderVars, rendererVars>>
    /\ calls' = Append(calls, "os.rename")
    /\ UNCHANGED mainVars

\* line 138-141: the finally clause removes the temporary file if it exists, then
\* the function returns or the pending exception propagates
ImageFinally ==
    /\ pc = "image_finally"
    /\ tmp_exists' = FALSE
    /\ pc' = IF exc = <<>> THEN "image_returned" ELSE "image_raised"
    /\ UNCHANGED <<exc, tmp_content, generated_exists, output_exists, returncode, stderr, renames>>
    /\ UNCHANGED <<parserVars, builderVars, rendererVars>>
    /\ UNCHANGED <<mainVars, calls>>

(***************************************************************************)
(* parse_config and main                                                   *)
(***************************************************************************)
MSG_USAGE == <<"Usage: python visualizer.py <config.xml>">>
MSG_ERROR == <<"error: ">>
MSG_SAVED == <<"dependency graph saved to ">>
MSG_CONFIG_MISSING == <<"configuration file not found: ">>
MSG_XML == <<"error parsing the XML file: ">>
MSG_FIELDS == <<"the configuration file must hold PlantUMLPath, PackageName, OutputImagePath and PackageDatabasePath">>
MSG_NO_PLANTUML == <<"PlantUML not found at: ">>

\* the command lines: no argument, the configuration path, one argument too many
Argvs ==
    { << <<"visualizer.py">> >>,
      << <<"visualizer.py">>, <<"config.xml">> >>,
      << <<"visualizer.py">>, <<"config.xml">>, <<"extra">> >> }

\* what findtext may give for each field of the configuration: None or a text
PlantumlPathTexts == { <<>>, << <<"plantuml", ".jar">> >>, << <<"plantuml", ".exe">> >> }
PackageNameTexts == { <<>> } \cup { <<r>> : r \in Roots }
OutputPathTexts == { <<>>, << <<"graph.png">> >>, << <<"out/", "deps.png">> >> }
DatabasePathTexts == { <<>>, << <<"installed">> >> }

\* plantuml_path.lower().endswith('.jar')
EndsWithJar(path) == path # <<>> /\ path[Len(path)] \in {".jar", ".JAR"}

\* line 144-147: a wrong argument count prints the usage and exits with code 1
MainStart ==
    /\ pc = "main_start"
    /\ IF Len(argv) # 2
       THEN /\ stdout' = Append(stdout, MSG_USAGE)
            /\ exit_code' = 1
            /\ pc' = "exited"
       ELSE /\ pc' = "config_start"
            /\ UNCHANGED <<stdout, exit_code>>
    /\ UNCHANGED <<exc, argv, config, calls>>
    /\ UNCHANGED <<parserVars, builderVars, rendererVars, imageVars>>

\* line 149, 13-36: parse_config reads the four fields and validates them
ParseConfig ==
    /\ pc = "config_start"
    /\ calls' = Append(calls, "parse_config")
    /\ \E config_exists \in BOOLEAN, xml_parses \in BOOLEAN,
          plantuml_path \in PlantumlPathTexts, name \in PackageNameTexts,
          output_image_path \in OutputPathTexts, package_db_path \in DatabasePathTexts,
          plantuml_isfile \in BOOLEAN, db_exists \in BOOLEAN :
         LET raised ==
               IF ~config_exists THEN <<"FileNotFoundError", MSG_CONFIG_MISSING \o argv[2]>>
               ELSE IF ~xml_parses THEN <<"ValueError", MSG_XML>>
               ELSE IF ~(Truthy(plantuml_path) /\ Truthy(name)
                          /\ Truthy(output_image_path) /\ Truthy(package_db_path))
                    THEN <<"ValueError", MSG_FIELDS>>
               ELSE IF ~(plantuml_isfile \/ EndsWithJar(plantuml_path[1]))
                    THEN <<"FileNotFoundError", MSG_NO_PLANTUML \o plantuml_path[1]>>
               ELSE IF ~db_exists
                    THEN <<"FileNotFoundError", MSG_DB_MISSING \o package_db_path[1]>>
               ELSE <<>>
         IN  IF raised # <<>>
             THEN /\ pc' = "config_raised"
                  /\ exc' = raised
                  /\ UNCHANGED config
             ELSE /\ pc' = "config_returned"
                  /\ config' = <<plantuml_path[1], name[1], output_image_path[1],
                                 package_db_path[1]>>
                  /\ UNCHANGED exc
    /\ UNCHANGED <<argv, stdout, exit_code>>
    /\ UNCHANGED <<parserVars, builderVars, rendererVars, imageVars>>

\* line 155: main calls parse_installed_packages(package_db_path)
MainCallParse ==
    /\ pc = "config_returned"
    /\ pc' = "parse_start"
    /\ calls' = Append(calls, "parse_installed_packages")
    /\ UNCHANGED <<exc, mainVars, parserVars, builderVars, rendererVars, imageVars>>

\* line 156: main calls build_dependency_graph(package_name, packages_db)
MainCallBuild ==
    /\ pc = "parse_returned"
    /\ pc' = "build_start"
    /\ package_name' = config[2]
    /\ calls' = Append(calls, "build_dependency_graph")
    /\ UNCHANGED <<dependency_graph, visited, stack, expansions>>
    /\ UNCHANGED <<exc, mainVars, parserVars, rendererVars, imageVars>>

\* line 160: main calls generate_image(plantuml_code, plantuml_path, output_image_path)
MainCallImage ==
    /\ pc = "plantuml_returned"
    /\ pc' = "image_start"
    /\ calls' = Append(calls, "generate_image")
    /\ UNCHANGED <<exc, mainVars, parserVars, builderVars, rendererVars, imageVars>>

\* line 161: every stage returned: the confirmation is printed and main returns
MainSuccess ==
    /\ pc = "image_returned"
    /\ stdout' = Append(stdout, MSG_SAVED \o config[3])
    /\ exit_code' = 0
    /\ pc' = "exited"
    /\ UNCHANGED <<exc, argv, config, calls>>
    /\ UNCHANGED <<parserVars, builderVars, rendererVars, imageVars>>

\* a handler that prints the error and lets main return
MainExceptReturning ==
    /\ pc \in {"config_raised", "parse_raised", "build_raised", "image_raised"}
    /\ stdout' = Append(stdout, MSG_ERROR \o exc[2])
    /\ exit_code' = 0
    /\ pc' = "exited"
    /\ UNCHANGED <<exc, argv, config, calls>>
    /\ UNCHANGED <<parserVars, builderVars, rendererVars, imageVars>>

\* line 162-164: the exception of a stage is printed and the process exits with code 1
MainExcept ==
    /\ pc \in {"config_raised", "parse_raised", "build_raised", "image_raised"}
    /\ stdout' = Append(stdout, MSG_ERROR \o exc[2])
    /\ exit_code' = 1
    /\ pc' = "exited"
    /\ UNCHANGED <<exc, argv, config, calls>>
    /\ UNCHANGED <<parserVars, builderVars, rendererVars, imageVars>>

InitParse ==
    /\ pc = "parse_start"
    /\ exc = <<>>
    /\ f \in SeqsUpTo(RawLines, MaxLines)
    /\ i = 0
    /\ packages_db = <<>>
    /\ current_package = <<>>
    /\ dependencies = <<>>
    /\ package_name = <<>>
    /\ dependency_graph = <<>>
    /\ visited = {}
    /\ stack = <<>>
    /\ expansions = <<>>
    /\ lines = <<>>
    /\ plantuml_code = <<>>
    /\ tmp_exists = FALSE
    /\ tmp_content = <<>>
    /\ generated_exists = FALSE
    /\ output_exists = FALSE
    /\ returncode = -1
    /\ stderr = <<>>
    /\ renames = 0
    /\ argv = <<>>
    /\ config = <<>>
    /\ calls = <<>>
    /\ stdout = <<>>
    /\ exit_code = -1

NextParse ==
    \/ ParseStart
    \/ ParseLineP
    \/ ParseLineD
    \/ ParseLineOther
    \/ ParseEnd

SpecParse == InitParse /\ [][NextParse]_vars

InitBuild ==
    /\ pc = "build_start"
    /\ exc = <<>>
    /\ f = <<>>
    /\ i = 0
    /\ \E ra \in Records(NameSeq[1], MaxEdges) :
       \E rb \in Records(NameSeq[2], MaxEdges - Edges(ra)) :
       \E rc \in Records(NameSeq[3], MaxEdges - Edges(ra \o rb)) :
       \E rd \in Records(NameSeq[4], MaxEdges - Edges(ra \o rb \o rc)) :
          packages_db = ra \o rb \o rc \o rd
    /\ current_package = <<>>
    /\ dependencies = <<>>
    /\ package_name \in Roots
    /\ dependency_graph = <<>>
    /\ visited = {}
    /\ stack = <<>>
    /\ expansions = <<>>
    /\ lines = <<>>
    /\ plantuml_code = <<>>
    /\ tmp_exists = FALSE
    /\ tmp_content = <<>>
    /\ generated_exists = FALSE
    /\ output_exists = FALSE
    /\ returncode = -1
    /\ stderr = <<>>
    /\ renames = 0
    /\ argv = <<>>
    /\ config = <<>>
    /\ calls = <<>>
    /\ stdout = <<>>
    /\ exit_code = -1

NextBuild ==
    \/ BuildStart
    \/ VisitSkip
    \/ VisitExpand
    \/ VisitCall
    \/ VisitRecursionError
    \/ VisitReturn
    \/ GeneratePlantuml

SpecBuild == InitBuild /\ [][NextBuild]_vars

\* the diagram texts handed to generate_image
ImageCodes ==
    { join(<<"\n">>, <<STARTUML>> \o GraphLines(g) \o <<ENDUML>>) :
        g \in { <<>>,
                <<[k |-> <<"a">>, v |-> << <<"b">> >>], [k |-> <<"b">>, v |-> <<>>]>>,
                <<[k |-> <<"a">>, v |-> << <<"a">> >>]>> } }

InitImage ==
    /\ pc = "image_start"
    /\ exc = <<>>
    /\ f = <<>>
    /\ i = 0
    /\ packages_db = <<>>
    /\ current_package = <<>>
    /\ dependencies = <<>>
    /\ package_name = <<>>
    /\ dependency_graph = <<>>
    /\ visited = {}
    /\ stack = <<>>
    /\ expansions = <<>>
    /\ lines = <<>>
    /\ plantuml_code \in ImageCodes
    /\ tmp_exists = FALSE
    /\ tmp_content = <<>>
    /\ generated_exists = FALSE
    /\ output_exists \in BOOLEAN
    /\ returncode = -1
    /\ stderr = <<>>
    /\ renames = 0
    /\ argv = <<>>
    /\ config = <<>>
    /\ calls = <<>>
    /\ stdout = <<>>
    /\ exit_code = -1

NextImage ==
    \/ ImageCreateTmp
    \/ ImageWrite
    \/ ImageRunOSError
    \/ ImageRunNonZero
    \/ ImageRunZero
    \/ ImageCheck
    \/ ImageRename
    \/ ImageFinally

SpecImage == InitImage /\ [][NextImage]_vars


\* the longest database file of the runs of main, but for the two files below
MainMaxLines == 2

\* a database whose chain of dependencies is deeper than RecursionLimit
ChainFile ==
    << <<"P", ":", "a">>, <<"D", ":", "b">>, <<"P", ":", "b">>, <<"D", ":", "c">>,
       <<"P", ":", "c">>, <<"D", ":", "d">>, <<"P", ":", "d">>, <<"D", ":", "a">> >>

\* the database {a: [b, c], b: [], c: [b]}
DiamondFile ==
    << <<"P", ":", "a">>, <<"D", ":", "b", " ", "c">>, <<"P", ":", "b">>, <<"D", ":">>,
       <<"P", ":", "c">>, <<"D", ":", "b">> >>

\* the database files of the runs of main
MainFiles == SeqsUpTo(RawLines, MainMaxLines) \cup {ChainFile, DiamondFile}

InitMain ==
    /\ pc = "main_start"
    /\ exc = <<>>
    /\ f \in MainFiles
    /\ i = 0
    /\ packages_db = <<>>
    /\ current_package = <<>>
    /\ dependencies = <<>>
    /\ package_name = <<>>
    /\ dependency_graph = <<>>
    /\ visited = {}
    /\ stack = <<>>
    /\ expansions = <<>>
    /\ lines = <<>>
    /\ plantuml_code = <<>>
    /\ tmp_exists = FALSE
    /\ tmp_content = <<>>
    /\ generated_exists = FALSE
    /\ output_exists \in BOOLEAN
    /\ returncode = -1
    /\ stderr = <<>>
    /\ renames = 0
    /\ argv \in Argvs
    /\ config = <<>>
    /\ calls = <<>>
    /\ stdout = <<>>
    /\ exit_code = -1

NextMain ==
    \/ MainStart
    \/ ParseConfig
    \/ MainCallParse
    \/ ParseStart
    \/ ParseLineP
    \/ ParseLineD
    \/ ParseLineOther
    \/ ParseEnd
    \/ MainCallBuild
    \/ BuildStart
    \/ VisitSkip
    \/ VisitExpand
    \/ VisitCall
    \/ VisitRecursionError
    \/ VisitReturn
    \/ GeneratePlantuml
    \/ MainCallImage
    \/ ImageCreateTmp
    \/ ImageWrite
    \/ ImageRunOSError
    \/ ImageRunNonZero
    \/ ImageRunZero
    \/ ImageCheck
    \/ ImageRename
    \/ ImageFinally
    \/ MainSuccess
    \/ MainExcept

SpecMain == InitMain /\ [][NextMain]_vars

(***************************************************************************)
(* Properties of parse_installed_packages (SpecParse)                      *)
(***************************************************************************)
\* line n of the file, trimmed
Trimmed(n) == strip(f[n])

\* line n opens a record
IsPLine(n) == startswith(Trimmed(n), PREFIX_P)

\* line n is a dependency line
IsDLine(n) == ~IsPLine(n) /\ startswith(Trimmed(n), PREFIX_D)

\* the name line n opens
NameAt(n) == Slice2(Trimmed(n))

\* the lines that open a record
PLines == {n \in 1..Len(f) : IsPLine(n)}

\* the last line of the block that line p opens
BlockLast(p) ==
    IF \E q \in PLines : q > p
    THEN (CHOOSE q \in PLines : q > p /\ \A r \in PLines : r > p => q <= r) - 1
    ELSE Len(f)

RECURSIVE TokensOf(_, _)
\* the tokens of the D: lines among lines from..to, in order
TokensOf(from, to) ==
    IF from > to THEN <<>>
    ELSE (IF IsDLine(from) THEN split(NameAt(from)) ELSE <<>>) \o TokensOf(from + 1, to)

\* the last line that opens a record named name
LastBlock(name) ==
    CHOOSE p \in PLines : NameAt(p) = name /\ \A q \in PLines : NameAt(q) = name => q <= p

\* the value the claim gives the key name
BlockValue(name) == TokensOf(LastBlock(name) + 1, BlockLast(LastBlock(name)))

\* the mapping holds exactly the keys in K, each with the list of its last block
ParsedIs(K) ==
    /\ DictKeys(packages_db) = K
    /\ Len(packages_db) = Cardinality(K)
    /\ \A n \in 1..Len(packages_db) : packages_db[n].v = BlockValue(packages_db[n].k)

\* C7 as stated: every name opened by a P: line is a key of the mapping returned,
\* mapped to the concatenated tokens of the D: lines of the last block of that name.
C7_EveryOpenedNameIsKey ==
    pc = "parse_returned" => ParsedIs({NameAt(p) : p \in PLines})

\* C7 amended: every non-empty name opened by a P: line is a key of the mapping
\* returned (a P: line with nothing after the prefix opens a record that is never
\* committed), mapped to the in-order concatenation of the tokens of all D: lines
\* of the last P: block bearing that name; no other key exists.
C7_NonEmptyOpenedNamesAreKeys ==
    pc = "parse_returned" => ParsedIs({NameAt(p) : p \in PLines} \ {<<>>})

\* a returned parse of a file in which a name is opened twice, the earlier block
\* holds a dependency and the later block a different list, which is the one kept
C7_Witness ==
    /\ pc = "parse_returned"
    /\ \E p, q \in PLines :
         /\ p < q
         /\ NameAt(p) = NameAt(q)
         /\ NameAt(p) # <<>>
         /\ TokensOf(p + 1, BlockLast(p)) # <<>>
         /\ TokensOf(q + 1, BlockLast(q)) # <<>>
         /\ TokensOf(q + 1, BlockLast(q)) # TokensOf(p + 1, BlockLast(p))
         /\ DictGet(packages_db, NameAt(p), <<>>) = TokensOf(q + 1, BlockLast(q))

\* no P: line has been read yet
NoRecordOpen == current_package = <<>>

\* C8: no line makes the parser fail; a line that is neither P: nor D: changes
\* neither the mapping, the open record nor its list; before the first P: line
\* nothing is recorded and what D: lines gathered is dropped when the first
\* record opens; a file without a P: line yields the empty mapping.
C8_IgnoredLinesAddNothing ==
    /\ [][ pc = "parse_loop" =>
             /\ pc' # "parse_raised"
             /\ (i <= Len(f) /\ ~IsPLine(i) /\ ~IsDLine(i)) =>
                   UNCHANGED <<packages_db, current_package, dependencies>>
             /\ (i <= Len(f) /\ NoRecordOpen /\ ~IsPLine(i)) =>
                   (packages_db' = <<>> /\ current_package' = <<>>)
             /\ (i <= Len(f) /\ NoRecordOpen /\ IsPLine(i)) =>
                   (packages_db' = <<>> /\ dependencies' = <<>>) ]_vars
    /\ [](pc = "parse_returned" /\ PLines = {} => packages_db = <<>>)

\* a returned parse of a file that has a D: line with a token before its first
\* P: line and, inside a block, an ignored line followed by a D: line whose token
\* is in the record
C8_Witness ==
    /\ pc = "parse_returned"
    /\ \E d, p, x, e \in 1..Len(f) :
         /\ d < p /\ p < x /\ x < e
         /\ IsDLine(d) /\ split(NameAt(d)) # <<>>
         /\ PLines = {p}
         /\ ~IsDLine(x)
         /\ IsDLine(e)
         /\ split(NameAt(e)) # <<>>
         /\ packages_db = <<[k |-> NameAt(p), v |-> TokensOf(p + 1, Len(f))]>>
         /\ packages_db[1].v # <<>>

\* a returned parse of a file without any P: line but with a D: line
C8_WitnessNoRecord ==
    /\ pc = "parse_returned"
    /\ PLines = {}
    /\ \E d \in 1..Len(f) : IsDLine(d)

(***************************************************************************)
(* Properties of build_dependency_graph (SpecBuild)                        *)
(***************************************************************************)
\* the database entry of the package key, when it has one
HasRecord(key) == \E m \in 1..Len(packages_db) : packages_db[m].k = key

\* name occurs in the dependency list of some record of the database
ListedSomewhere(name) ==
    \E m \in 1..Len(packages_db) :
        \E j \in 1..Len(packages_db[m].v) : packages_db[m].v[j] = name

\* C1: when the root is no key of the database (the empty database included, and
\* also when another package lists the root), the call ends with the
\* package-not-found error and no graph is built.
C1_AbsentRootRaisesNotFound ==
    (pc # "build_start" /\ ~HasRecord(package_name)) =>
        /\ pc = "build_raised"
        /\ exc # <<>>
        /\ exc[1] = "ValueError"
        /\ exc[2] = MSG_NOT_FOUND_1 \o package_name \o MSG_NOT_FOUND_2
        /\ dependency_graph = <<>>
        /\ visited = {}
        /\ expansions = <<>>

\* the call has failed for a root that has no record but that another package lists
C1_Witness ==
    /\ pc = "build_raised"
    /\ ~HasRecord(package_name)
    /\ packages_db # <<>>
    /\ ListedSomewhere(package_name)

\* C2 as stated: for a root that is a key of the database the call never fails.
C2_PresentRootNeverFails ==
    HasRecord(package_name) => pc # "build_raised"

\* C3: in the graph returned every key occurs once, and its list is the
\* database's list for it, verbatim, when it has a record, and empty when it has none.
C3_EdgeListsVerbatim ==
    pc = "build_returned" =>
        /\ \A m, n \in 1..Len(dependency_graph) :
              dependency_graph[m].k = dependency_graph[n].k => m = n
        /\ \A n \in 1..Len(dependency_graph) :
              /\ \A m \in 1..Len(packages_db) :
                    packages_db[m].k = dependency_graph[n].k =>
                        dependency_graph[n].v = packages_db[m].v
              /\ ~HasRecord(dependency_graph[n].k) => dependency_graph[n].v = <<>>

\* the graph returned for the cycle a -> b -> a holds both edges, once each
C3_Witness ==
    /\ pc = "build_returned"
    /\ packages_db = <<[k |-> <<"a">>, v |-> << <<"b">> >>],
                       [k |-> <<"b">>, v |-> << <<"a">> >>]>>
    /\ dependency_graph = <<[k |-> <<"a">>, v |-> << <<"b">> >>],
                            [k |-> <<"b">>, v |-> << <<"a">> >>]>>

\* the names the packages in S list
Listed(S) ==
    UNION { {packages_db[m].v[j] : j \in 1..Len(packages_db[m].v)} :
              m \in {m \in 1..Len(packages_db) : packages_db[m].k \in S} }

RECURSIVE ReachableFrom(_)
\* the names reachable from S along the dependency lists, S included
ReachableFrom(S) ==
    IF Listed(S) \subseteq S THEN S ELSE ReachableFrom(S \cup Listed(S))

\* C4: the keys of the graph returned are exactly the names reachable from the root.
C4_KeysAreReachableSet ==
    pc = "build_returned" => DictKeys(dependency_graph) = ReachableFrom({package_name})

\* a graph returned that has a dangling name as a leaf key and leaves out a
\* package of the database that the root does not reach
C4_Witness ==
    /\ pc = "build_returned"
    /\ \E n \in 1..Len(dependency_graph) :
         /\ ~HasRecord(dependency_graph[n].k)
         /\ dependency_graph[n].v = <<>>
    /\ \E m \in 1..Len(packages_db) : packages_db[m].k \notin DictKeys(dependency_graph)

\* C5: no package is expanded twice during a call, and a call of visit for a
\* package already visited changes neither the visited set nor the graph.
C5_ExpandedAtMostOnce ==
    /\ [](\A m, n \in 1..Len(expansions) : expansions[m] = expansions[n] => m = n)
    /\ [][ (pc = "visit" /\ Top.n = 0 /\ Top.pkg \in visited) =>
             UNCHANGED <<visited, dependency_graph, expansions>> ]_vars

\* a call has returned after visit met, a second time, a package that two
\* packages list and a package that a cycle leads back to
C5_Witness ==
    /\ pc = "build_returned"
    /\ packages_db = <<[k |-> <<"a">>, v |-> << <<"b">>, <<"c">> >>],
                       [k |-> <<"b">>, v |-> << <<"a">> >>],
                       [k |-> <<"c">>, v |-> << <<"b">> >>]>>
    /\ expansions = << <<"a">>, <<"b">>, <<"c">> >>

RECURSIVE PreOrder(_, _)
\* the first-visit order of a depth-first traversal: todo holds the names still
\* to look at, the next first; order holds the names met so far
PreOrder(todo, order) ==
    IF todo = <<>> THEN order
    ELSE IF \E n \in 1..Len(order) : order[n] = Head(todo)
         THEN PreOrder(Tail(todo), order)
         ELSE LET own == {m \in 1..Len(packages_db) : packages_db[m].k = Head(todo)}
                  deps == IF own = {} THEN <<>> ELSE packages_db[CHOOSE m \in own : TRUE].v
              IN  PreOrder(deps \o Tail(todo), Append(order, Head(todo)))

\* C6: the keys of the graph returned are in pre-order depth-first first-visit
\* order from the root, dependencies in declared order.
C6_KeysInPreOrder ==
    pc = "build_returned" =>
        DictKeySeq(dependency_graph) = PreOrder(<<package_name>>, <<>>)

\* the graph returned for {a: [b, c], b: [], c: [b]} (bash, libc, readline) has
\* the keys a, b, c in that order
C6_Witness ==
    /\ pc = "build_returned"
    /\ packages_db = <<[k |-> <<"a">>, v |-> << <<"b">>, <<"c">> >>],
                       [k |-> <<"b">>, v |-> <<>>],
                       [k |-> <<"c">>, v |-> << <<"b">> >>]>>
    /\ DictKeySeq(dependency_graph) = << <<"a">>, <<"b">>, <<"c">> >>

(***************************************************************************)
(* Properties of generate_plantuml (SpecBuild)                             *)
(***************************************************************************)
RECURSIVE TextLinesAcc(_, _, _)
TextLinesAcc(text, cur, acc) ==
    IF text = <<>> THEN Append(acc, cur)
    ELSE IF Head(text) = "\n"
         THEN TextLinesAcc(Tail(text), <<>>, Append(acc, cur))
         ELSE TextLinesAcc(Tail(text), Append(cur, Head(text)), acc)

\* the lines of a text
TextLines(text) == TextLinesAcc(text, <<>>, <<>>)

RECURSIVE EdgesBefore(_, _)
\* the number of dependencies of the first n - 1 keys of the graph g
EdgesBefore(g, n) == IF n <= 1 THEN 0 ELSE Len(g[n - 1].v) + EdgesBefore(g, n - 1)

\* C9: the text is the header, then one edge line per (package, dependency) pair,
\* keys in graph order and dependencies in list order, then the footer; a package
\* without dependencies has no line, so there are as many edge lines as
\* dependencies in all.
C9_OneEdgeLinePerPair ==
    pc = "plantuml_returned" =>
        LET g == dependency_graph
            out == TextLines(plantuml_code)
        IN  /\ Len(out) = EdgesBefore(g, Len(g) + 1) + 2
            /\ out[1] = <<"@startuml">>
            /\ out[Len(out)] = <<"@enduml">>
            /\ \A n \in 1..Len(g) : \A j \in 1..Len(g[n].v) :
                  out[1 + EdgesBefore(g, n) + j] =
                      <<"\"">> \o g[n].k \o <<"\" --> \"">> \o g[n].v[j] \o <<"\"">>

\* the text for {a: [b, c], b: [], c: [b]} (bash, libc, readline) has the edges
\* a -> b, a -> c, c -> b in that order and nothing for b
C9_Witness ==
    /\ pc = "plantuml_returned"
    /\ dependency_graph = <<[k |-> <<"a">>, v |-> << <<"b">>, <<"c">> >>],
                            [k |-> <<"b">>, v |-> <<>>],
                            [k |-> <<"c">>, v |-> << <<"b">> >>]>>
    /\ TextLines(plantuml_code) =
         << <<"@startuml">>,
            <<"\"", "a", "\" --> \"", "b", "\"">>,
            <<"\"", "a", "\" --> \"", "c", "\"">>,
            <<"\"", "c", "\" --> \"", "b", "\"">>,
            <<"@enduml">> >>

(***************************************************************************)
(* Properties of generate_image (SpecImage)                                *)
(***************************************************************************)
\* the call of generate_image is over
ImageOver == pc \in {"image_returned", "image_raised"}

\* C10 as stated: no call of generate_image ends with the temporary file present.
C10_TmpRemovedOnEveryExit ==
    ImageOver => ~tmp_exists

\* the text t occurs in the text s, as it is
Contains(s, t) ==
    \E n \in 0..(Len(s) - Len(t)) : SubSeq(s, n + 1, n + Len(t)) = t

\* os.rename has been called
RenameCalled == \E n \in 1..Len(calls) : calls[n] = "os.rename"

\* C11 as stated: when the renderer exits non-zero the call fails with the
\* renderer error, whose message contains the standard-error text verbatim, and
\* nothing is renamed.
C11_NonZeroExitCarriesStderrVerbatim ==
    (ImageOver /\ returncode \notin {-1, 0}) =>
        /\ pc = "image_raised"
        /\ exc[1] = "RuntimeError"
        /\ Contains(exc[2], stderr)
        /\ ~RenameCalled
        /\ renames = 0

\* C12: after a zero exit the call looks for the artifact: absent, it fails with
\* the missing-image error and os.rename is not called; present, os.rename is
\* called, and when the call returns the artifact is at the output path. os.rename
\* is called only at a zero exit with the artifact present, and once at most.
C12_RenameOnlyAfterZeroExitAndCheck ==
    /\ []((ImageOver /\ returncode = 0 /\ ~RenameCalled) =>
            /\ ~generated_exists
            /\ pc = "image_raised"
            /\ exc = <<"FileNotFoundError", MSG_NO_IMAGE>>
            /\ renames = 0)
    /\ []((ImageOver /\ RenameCalled) =>
            /\ returncode = 0
            /\ exc # <<"FileNotFoundError", MSG_NO_IMAGE>>
            /\ pc = "image_returned" =>
                  (renames = 1 /\ output_exists /\ ~generated_exists))
    /\ [](pc = "image_returned" => RenameCalled /\ renames = 1)
    /\ [][ calls' # calls =>
             /\ pc = "image_rename"
             /\ returncode = 0
             /\ generated_exists
             /\ ~RenameCalled
             /\ renames = 0
             /\ renames' <= 1 ]_vars

\* a call has returned after a zero exit, the artifact found and renamed once
C12_Witness ==
    /\ pc = "image_returned"
    /\ returncode = 0
    /\ calls = <<"os.rename">>
    /\ renames = 1
    /\ output_exists
    /\ ~generated_exists

\* a call has failed after a zero exit because the artifact was missing
C12_WitnessAbsent ==
    /\ pc = "image_raised"
    /\ returncode = 0
    /\ exc = <<"FileNotFoundError", MSG_NO_IMAGE>>
    /\ calls = <<>>

(***************************************************************************)
(* Properties of main (SpecMain)                                           *)
(***************************************************************************)
\* the five stages in the order of the pipeline: config, database parser, graph
\* builder, graph renderer, render invoker
Stages ==
    <<"parse_config", "parse_installed_packages", "build_dependency_graph",
      "generate_plantuml", "generate_image">>

\* the stages that have been run, in order
StagesRun == SelectSeq(calls, LAMBDA c : c # "os.rename")

\* C13: the stages run in pipeline order; once a stage has failed no further
\* stage is run and the process exits with code 1 after printing the error; the
\* process exits with code 0, after printing the confirmation that names the
\* output path, only when all five stages succeeded; with a wrong argument count
\* it exits with code 1 after the usage message and no stage is run.
C13_StagesInOrderAndExitCodes ==
    /\ [](StagesRun = SubSeq(Stages, 1, Len(StagesRun)))
    /\ [][exc # <<>> => StagesRun' = StagesRun]_vars
    /\ [](pc # "exited" => (exit_code = -1 /\ stdout = <<>>))
    /\ [](pc = "exited" =>
            /\ exit_code \in {0, 1}
            /\ Len(argv) # 2 =>
                  (exit_code = 1 /\ StagesRun = <<>> /\ stdout = <<MSG_USAGE>>)
            /\ (Len(argv) = 2 /\ exc # <<>>) =>
                  (exit_code = 1 /\ stdout = <<MSG_ERROR \o exc[2]>>)
            /\ (Len(argv) = 2 /\ StagesRun # Stages) => exc # <<>>
            /\ exit_code = 0 =>
                  /\ Len(argv) = 2
                  /\ exc = <<>>
                  /\ StagesRun = Stages
                  /\ config # <<>>
                  /\ DictHas(packages_db, config[2])
                  /\ DictHas(dependency_graph, config[2])
                  /\ tmp_content = plantuml_code
                  /\ renames = 1
                  /\ stdout = <<MSG_SAVED \o config[3]>>)

\* the process has exited with code 0 after the five stages
C13_Witness ==
    /\ pc = "exited"
    /\ exit_code = 0
    /\ StagesRun = Stages
    /\ f = DiamondFile
    /\ stdout = << <<"dependency graph saved to ", "out/", "deps.png">> >>

\* the process has exited with code 1 after the graph builder failed, the
\* renderer and the render invoker not run
C13_WitnessBuilderFails ==
    /\ pc = "exited"
    /\ exit_code = 1
    /\ StagesRun = SubSeq(Stages, 1, 3)
    /\ exc[1] = "ValueError"

\* the process has exited with code 1 after the usage message
C13_WitnessUsage ==
    /\ pc = "exited"
    /\ Len(argv) = 3
    /\ exit_code = 1

====
